---- MODULE Spec2Model ----
(***************************************************************************)
(* Model of calendar_automation.py (MIET schedule parser): the entry       *)
(* order and alignment predicate of ScheduleEntry, the in-place merge pass *)
(* of merge_list_of_classes and the slot-to-date/time projection of        *)
(* create_ics_file.                                                        *)
(*                                                                         *)
(* Strings (class_name, room_number) are represented by their rank in      *)
(* lexicographic order, so that tuple comparison can be computed.  Python  *)
(* list index k is sequence index k+1.  Dates are proleptic Gregorian      *)
(* ordinals (date.toordinal()), times are minutes since ordinal 0.         *)
(***************************************************************************)
EXTENDS Integers, Sequences, FiniteSets

VARIABLES unmerged, class_list, i, list_len, while_cond, pc,
          start_date, entry, academic_hour_duration,
          short_recreation_duration, long_recreation_duration,
          first_class_date, start_time, end_time, ppc

mergeVars == <<unmerged, class_list, i, list_len, while_cond, pc>>
projVars == <<start_date, entry, academic_hour_duration,
              short_recreation_duration, long_recreation_duration,
              first_class_date, start_time, end_time, ppc>>
vars == <<unmerged, class_list, i, list_len, while_cond, pc,
          start_date, entry, academic_hour_duration,
          short_recreation_duration, long_recreation_duration,
          first_class_date, start_time, end_time, ppc>>

\* ------------------------------------------------------------------ bounds
MaxLen == 3
MaxSlot == 2
MaxDuration == 3
MaxProjSlot == 4
StartSpan == 6

\* ------------------------------------------------------- input universes
\* <<class_name, week_code, room_number, week_day>> combinations fed to the
\* merge: two classes in one room, one class in two rooms and in two weeks
MergeClasses == {<<1, 0, 1, 0>>, <<2, 0, 1, 0>>, <<1, 0, 2, 0>>, <<1, 3, 1, 0>>}
WeekCodes == 0..3
WeekDays == 0..6
SemesterStartsAt == 738921
StartDates == SemesterStartsAt..(SemesterStartsAt + StartSpan)
AcademicHours == {40, 45}
ShortRecreations == {10, 5}
LongRecreations == {40, 30}

\* ------------------------------------------------------- ScheduleEntry
ScheduleEntry(class_name, week_code, room_number, week_day, slot_number) ==
  [class_name |-> class_name, week_code |-> week_code,
   room_number |-> room_number, week_day |-> week_day,
   slot_number |-> slot_number, duration |-> 1]

EntryKey(e) ==
  <<e.week_code, e.week_day, e.slot_number, e.room_number, e.class_name>>

RECURSIVE TupleLt(_, _)
TupleLt(a, b) ==
  IF a = <<>> \/ b = <<>> THEN a = <<>> /\ b # <<>>
  ELSE IF Head(a) # Head(b) THEN Head(a) < Head(b)
  ELSE TupleLt(Tail(a), Tail(b))

EntryEq(a, b) == EntryKey(a) = EntryKey(b)

EntryLt_NoClassName(a, b) ==
  TupleLt(SubSeq(EntryKey(a), 1, 4), SubSeq(EntryKey(b), 1, 4))

EntryLt(a, b) == TupleLt(EntryKey(a), EntryKey(b))

Abs(x) == IF x < 0 THEN -x ELSE x

is_aligned_class_AnyGap(a, b) ==
  /\ a.class_name = b.class_name
  /\ a.week_code = b.week_code
  /\ a.week_day = b.week_day
  /\ a.room_number = b.room_number
  /\ Abs(a.slot_number - b.slot_number) >= 1

is_aligned_class(a, b) ==
  /\ a.class_name = b.class_name
  /\ a.week_code = b.week_code
  /\ a.week_day = b.week_day
  /\ a.room_number = b.room_number
  /\ Abs(a.slot_number - b.slot_number) = 1

\* ------------------------------------------------------- list.sort()
\* Stable sort that uses only __lt__: x goes in front of the first element
\* it is strictly less than.
RECURSIVE InsertSorted(_, _)
InsertSorted(x, s) ==
  IF s = <<>> THEN <<x>>
  ELSE IF EntryLt(x, Head(s)) THEN <<x>> \o s
  ELSE <<Head(s)>> \o InsertSorted(x, Tail(s))

RECURSIVE SortList(_)
SortList(s) ==
  IF s = <<>> THEN <<>>
  ELSE InsertSorted(s[Len(s)], SortList(SubSeq(s, 1, Len(s) - 1)))

DelAt(s, k) == SubSeq(s, 1, k - 1) \o SubSeq(s, k + 1, Len(s))

\* ------------------------------------------------------- merge loop body
\* class_list[i] and class_list[i+1] of the code are cl[ii+1] and cl[ii+2].
IndexInRange(cl, ii) == ii >= 0 /\ ii + 2 <= Len(cl)

AlignedAt(cl, ii) == is_aligned_class(cl[ii + 1], cl[ii + 2])

\* One execution of lines 211-217; err is the IndexError of line 211.
LoopBody(cl, ii, ll) ==
  IF ~IndexInRange(cl, ii)
  THEN [class_list |-> cl, i |-> ii, list_len |-> ll,
        while_cond |-> TRUE, err |-> TRUE]
  ELSE IF AlignedAt(cl, ii)
  THEN [class_list |->
          DelAt([cl EXCEPT ![ii + 1].duration = @ + 1], ii + 2),
        i |-> ii, list_len |-> ll - 1,
        while_cond |-> ii < (ll - 1) - 1, err |-> FALSE]
  ELSE [class_list |-> cl, i |-> ii + 1, list_len |-> ll,
        while_cond |-> (ii + 1) < ll - 1, err |-> FALSE]

RECURSIVE MergeLoop(_, _, _)
MergeLoop(cl, ii, ll) ==
  LET r == LoopBody(cl, ii, ll)
  IN  IF r.err THEN [ok |-> FALSE, list |-> r.class_list]
      ELSE IF r.while_cond THEN MergeLoop(r.class_list, r.i, r.list_len)
      ELSE [ok |-> TRUE, list |-> r.class_list]

\* The whole function: ok = FALSE when it raises IndexError.
merge_list_of_classes(cl) == MergeLoop(SortList(cl), 0, Len(cl))

\* ------------------------------------------------------- merge actions
MergeEntries ==
  {ScheduleEntry(c[1], c[2], c[3], c[4], s) :
     c \in MergeClasses, s \in 0..MaxSlot}

SeqsUpTo(S, n) == UNION {[1..k -> S] : k \in 0..n}

NoEntry == ScheduleEntry(1, 0, 1, 0, 0)

ProjIdle ==
  /\ start_date = SemesterStartsAt
  /\ entry = NoEntry
  /\ academic_hour_duration = 40
  /\ short_recreation_duration = 10
  /\ long_recreation_duration = 40
  /\ first_class_date = 0
  /\ start_time = 0
  /\ end_time = 0
  /\ ppc = "idle"

InitMerge ==
  /\ unmerged \in SeqsUpTo(MergeEntries, MaxLen)
  /\ class_list = unmerged
  /\ i = 0
  /\ list_len = 0
  /\ while_cond = TRUE
  /\ pc = "sort"
  /\ ProjIdle

\* lines 206-209
Sort ==
  /\ pc = "sort"
  /\ class_list' = SortList(class_list)
  /\ i' = 0
  /\ list_len' = Len(class_list)
  /\ while_cond' = TRUE
  /\ pc' = "loop"
  /\ UNCHANGED <<unmerged, projVars>>

ApplyLoopBody ==
  LET r == LoopBody(class_list, i, list_len)
  IN  /\ class_list' = r.class_list
      /\ i' = r.i
      /\ list_len' = r.list_len
      /\ while_cond' = r.while_cond
      /\ pc' = IF r.err THEN "IndexError"
               ELSE IF r.while_cond THEN "loop" ELSE "return"
      /\ UNCHANGED <<unmerged, projVars>>

\* line 211 raises IndexError
LoopIndexError ==
  /\ pc = "loop"
  /\ ~IndexInRange(class_list, i)
  /\ ApplyLoopBody

\* lines 211-217, aligned branch
LoopMerge ==
  /\ pc = "loop"
  /\ IndexInRange(class_list, i)
  /\ AlignedAt(class_list, i)
  /\ ApplyLoopBody

\* lines 211, 216-217, not aligned
LoopAdvance ==
  /\ pc = "loop"
  /\ IndexInRange(class_list, i)
  /\ ~AlignedAt(class_list, i)
  /\ ApplyLoopBody

\* line 218
Return ==
  /\ pc = "return"
  /\ pc' = "done"
  /\ UNCHANGED <<unmerged, class_list, i, list_len, while_cond, projVars>>

NextMerge == Sort \/ LoopIndexError \/ LoopMerge \/ LoopAdvance \/ Return

SpecMerge == InitMerge /\ [][NextMerge]_vars

\* ------------------------------------------------------- create_ics_file
\* datetime.weekday(): Monday = 0; ordinal 1 (0001-01-01) is a Monday.
Weekday(date) == (date + 6) % 7

NeedsCycleWrap_Reversed(e, first_day_of_semester) ==
  (e.week_day > first_day_of_semester) /\ (e.week_code = 0)

\* line 244
NeedsCycleWrap(e, first_day_of_semester) ==
  (e.week_day < first_day_of_semester) /\ (e.week_code = 0)

\* lines 244-255: date of the first occurrence
FirstClassDate(e, sd) ==
  LET first_day_of_semester == Weekday(sd)
  IN  IF NeedsCycleWrap(e, first_day_of_semester)
      THEN LET week_offset == (e.week_code + 4) * 7
               day_offset == e.week_day - first_day_of_semester - 1
           IN  sd + (week_offset + day_offset)
      ELSE LET week_offset == e.week_code * 7
               day_offset == e.week_day - first_day_of_semester
           IN  sd + (week_offset + day_offset)

\* line 237
PairDuration(ahd) == ahd * 2

\* line 242
ClassDuration(e, ahd, srd) ==
  e.duration * PairDuration(ahd) + (e.duration - 1) * srd

\* lines 261-266, in minutes since ordinal 0
StartTime(e, date, ahd, srd, lrd) ==
  LET t0 == date * 1440 + 9 * 60
      t1 == t0 + e.slot_number * (PairDuration(ahd) + 10)
  IN  IF e.slot_number > 2 THEN t1 + (lrd - srd) ELSE t1

\* line 269
EndTime(e, date, ahd, srd, lrd) ==
  StartTime(e, date, ahd, srd, lrd) + ClassDuration(e, ahd, srd)

ProjEntries ==
  {[class_name |-> c, week_code |-> w, room_number |-> 1, week_day |-> d,
    slot_number |-> s, duration |-> n] :
     c \in {1}, w \in WeekCodes, d \in WeekDays,
     s \in 0..MaxProjSlot, n \in 1..MaxDuration}

MergeIdle ==
  /\ unmerged = <<>>
  /\ class_list = <<>>
  /\ i = 0
  /\ list_len = 0
  /\ while_cond = TRUE
  /\ pc = "idle"

InitProj ==
  /\ MergeIdle
  /\ start_date \in StartDates
  /\ entry \in ProjEntries
  /\ academic_hour_duration \in AcademicHours
  /\ short_recreation_duration \in ShortRecreations
  /\ long_recreation_duration \in LongRecreations
  /\ first_class_date = 0
  /\ start_time = 0
  /\ end_time = 0
  /\ ppc = "date"

SetFirstClassDate ==
  /\ first_class_date' = FirstClassDate(entry, start_date)
  /\ ppc' = "time"
  /\ UNCHANGED <<mergeVars, start_date, entry, academic_hour_duration,
                 short_recreation_duration, long_recreation_duration,
                 start_time, end_time>>

\* lines 244-249
ProjectWrap ==
  /\ ppc = "date"
  /\ NeedsCycleWrap(entry, Weekday(start_date))
  /\ SetFirstClassDate

\* lines 250-255
ProjectOrdinary ==
  /\ ppc = "date"
  /\ ~NeedsCycleWrap(entry, Weekday(start_date))
  /\ SetFirstClassDate

\* lines 261-275
ProjectTime ==
  /\ ppc = "time"
  /\ start_time' = StartTime(entry, first_class_date, academic_hour_duration,
                             short_recreation_duration,
                             long_recreation_duration)
  /\ end_time' = EndTime(entry, first_class_date, academic_hour_duration,
                         short_recreation_duration, long_recreation_duration)
  /\ ppc' = "done"
  /\ UNCHANGED <<mergeVars, start_date, entry, academic_hour_duration,
                 short_recreation_duration, long_recreation_duration,
                 first_class_date>>

NextProj == ProjectWrap \/ ProjectOrdinary \/ ProjectTime

SpecProj == InitProj /\ [][NextProj]_vars

\* ------------------------------------------------------- shared predicates
SameClassAndPlace(a, b) ==
  /\ a.class_name = b.class_name
  /\ a.week_code = b.week_code
  /\ a.week_day = b.week_day
  /\ a.room_number = b.room_number

SlotsOf(s) == {s[k].slot_number : k \in 1..Len(s)}

MinSlot(s) == CHOOSE m \in SlotsOf(s) : \A n \in SlotsOf(s) : m <= n

\* the input is one run of k >= 3 entries of one class on consecutive slots
IsAlignedRun(s) ==
  /\ Len(s) >= 3
  /\ \A p, q \in 1..Len(s) : SameClassAndPlace(s[p], s[q])
  /\ Cardinality(SlotsOf(s)) = Len(s)
  /\ \A n \in SlotsOf(s) : n < MinSlot(s) + Len(s)

IsSorted(s) == \A p, q \in 1..Len(s) : p < q => ~EntryLt(s[q], s[p])

Permutations(s) ==
  {[k \in 1..Len(s) |-> s[f[k]]] :
     f \in {g \in [1..Len(s) -> 1..Len(s)] :
              \A a, b \in 1..Len(s) : a # b => g[a] # g[b]}}

KeyPresent(e, s) == \E k \in 1..Len(s) : EntryEq(s[k], e)

PresentUnmerged(e, s) ==
  \E k \in 1..Len(s) : EntryEq(s[k], e) /\ s[k].duration = 1

DifferOnlyInClassName(a, b) ==
  /\ a.class_name # b.class_name
  /\ a.week_code = b.week_code
  /\ a.week_day = b.week_day
  /\ a.room_number = b.room_number
  /\ a.slot_number = b.slot_number

\* same class and place, slots at least 2 apart, none of that class between
GapOfTwoOrMore(a, b, s) ==
  /\ SameClassAndPlace(a, b)
  /\ Abs(a.slot_number - b.slot_number) >= 2
  /\ \A k \in 1..Len(s) :
       SameClassAndPlace(s[k], a) =>
         ~(/\ s[k].slot_number > a.slot_number
           /\ s[k].slot_number < b.slot_number)
         /\ ~(/\ s[k].slot_number > b.slot_number
              /\ s[k].slot_number < a.slot_number)

NotAlignedPair(p, q) ==
  \/ DifferOnlyInClassName(unmerged[p], unmerged[q])
  \/ GapOfTwoOrMore(unmerged[p], unmerged[q], unmerged)

NoThirdAligned(p, q) ==
  \A r \in 1..Len(unmerged) :
    (r # p /\ r # q) =>
      /\ ~SameClassAndPlace(unmerged[r], unmerged[p])
         \/ Abs(unmerged[r].slot_number - unmerged[p].slot_number) # 1
      /\ ~SameClassAndPlace(unmerged[r], unmerged[q])
         \/ Abs(unmerged[r].slot_number - unmerged[q].slot_number) # 1

MondayOfStartWeek == start_date - Weekday(start_date)

WrapCase ==
  /\ ppc = "done"
  /\ entry.week_code = 0
  /\ entry.week_day < Weekday(start_date)

\* ------------------------------------------------------- claims

\* C1: a list of k >= 3 entries of one class, week_code, week_day and room on
\* consecutive slots s..s+k-1 is merged into exactly one entry with
\* slot_number = s and duration = k.
C1_RunCollapses ==
  (pc = "done" /\ IsAlignedRun(unmerged)) =>
    /\ Len(class_list) = 1
    /\ class_list[1].slot_number = MinSlot(unmerged)
    /\ class_list[1].duration = Len(unmerged)

\* C2: for every non-empty input list the merge never reads class_list[i+1]
\* (or class_list[i]) outside the current list.
C2_NoIndexError ==
  Len(unmerged) >= 1 => pc # "IndexError"

\* C3: merging the returned list again completes and returns the same list.
C3_Idempotent ==
  pc = "done" =>
    LET r == merge_list_of_classes(class_list)
    IN  r.ok /\ r.list = class_list

\* C4: in the returned list no two entries, at any two positions, share
\* class_name, week_code, week_day and room_number with slot_number values
\* that differ by exactly 1.
C4_NoAlignedPairLeft ==
  pc = "done" =>
    \A p, q \in 1..Len(class_list) :
      ~(/\ SameClassAndPlace(class_list[p], class_list[q])
        /\ Abs(class_list[p].slot_number - class_list[q].slot_number) = 1)

\* C5: the returned list does not depend on the input order: every
\* permutation of the input yields the same list, entry by entry, and the
\* list is in non-decreasing order of the five-field key.
C5_OrderIndependent ==
  pc = "done" =>
    /\ IsSorted(class_list)
    /\ \A P \in Permutations(unmerged) :
         LET r == merge_list_of_classes(P)
         IN  r.ok /\ r.list = class_list

C5_Witness ==
  /\ pc = "done"
  /\ unmerged # SortList(unmerged)
  /\ Len(class_list) < Len(unmerged)
  /\ Len(class_list) >= 2

\* C6: an entry with week_code 0 whose week_day is before the weekday of the
\* semester start has its first occurrence in the calendar week that begins
\* 4 weeks after the Monday of the week containing the semester start.
C6_WrapLandsInNextCycleWeek ==
  WrapCase =>
    /\ first_class_date >= MondayOfStartWeek + 28
    /\ first_class_date <= MondayOfStartWeek + 34

\* C7: the first occurrence is never before the semester start date.
C7_NotBeforeSemesterStart ==
  ppc \in {"time", "done"} => first_class_date >= start_date

C7_Witness ==
  /\ WrapCase
  /\ first_class_date >= start_date
  /\ first_class_date < start_date + 28

\* C8 (as stated): whenever the input holds two entries that differ only in
\* class_name, or that share class and place with a slot gap of 2 or more
\* and nothing of that class in between, both are still present in the
\* returned list.
C8_BothStillPresent ==
  pc = "done" =>
    \A p, q \in 1..Len(unmerged) :
      NotAlignedPair(p, q) =>
        /\ KeyPresent(unmerged[p], class_list)
        /\ KeyPresent(unmerged[q], class_list)

\* C8 (amended): the same two entries, when no other input entry is aligned
\* with either of them, are both still present in the returned list with
\* duration 1.
C8_BothPresentWhenNoThirdAligned ==
  pc = "done" =>
    \A p, q \in 1..Len(unmerged) :
      (NotAlignedPair(p, q) /\ NoThirdAligned(p, q)) =>
        /\ PresentUnmerged(unmerged[p], class_list)
        /\ PresentUnmerged(unmerged[q], class_list)

C8_Witness ==
  /\ pc = "done"
  /\ \E p, q \in 1..Len(unmerged) :
       /\ GapOfTwoOrMore(unmerged[p], unmerged[q], unmerged)
       /\ NoThirdAligned(p, q)
       /\ PresentUnmerged(unmerged[p], class_list)
       /\ PresentUnmerged(unmerged[q], class_list)

\* C9: the weekday of the first occurrence date equals entry.week_day.
C9_KeepsWeekday ==
  ppc \in {"time", "done"} => Weekday(first_class_date) = entry.week_day

\* C10: the end time of a merged entry (slot s, duration d) equals the end
\* time of an unmerged entry at slot s+d-1 on the same date.
C10_EndOfBlockIsEndOfLastPeriod ==
  ppc = "done" =>
    end_time =
      EndTime([entry EXCEPT
                 !.slot_number = entry.slot_number + entry.duration - 1,
                 !.duration = 1],
              first_class_date, academic_hour_duration,
              short_recreation_duration, long_recreation_duration)

====
